---- MODULE Spec2Model ----
(***************************************************************************)
(* Threshold-based stress classification engine of benchmark_system.py.   *)
(*                                                                         *)
(* Numbers.  The engine computes on Python floats.  Here every number is   *)
(* an exact rational <<n, d>> in lowest terms with d > 0, so 0.5 is        *)
(* <<1, 2>> and 60.0 is <<60, 1>>.  A division whose divisor is zero       *)
(* raises ZeroDivisionError in Python; the raised exception is the value   *)
(* <<0, 0>>, and it propagates through every enclosing expression as the   *)
(* exception does.  Rounding error of the floating-point operations (about *)
(* 1e-15 relative) is not modelled.                                        *)
(***************************************************************************)
EXTENDS Integers, Sequences, FiniteSets, TLC

VARIABLES thresholds, WEIGHTS, calls, bench, pw, sc

vars == <<thresholds, WEIGHTS, calls, bench, pw, sc>>

----------------------------------------------------------------------------
(* Bounds of the model *)

\* subdivisions of each threshold interval probed by the piecewise functions
Grid == 4
\* subdivisions of the relaxed..elevated span probed by the composite scorer
Steps == 2
\* magnitude of the "very large" and "very negative" feature values
Huge == 10000
\* concurrent callers of compute_stress_score beside the benchmark loop
NumCallers == 1
\* passes of the warm-up loop (range(100) in the source)
WarmupRuns == 1
\* iterations of the timed loop (n_iterations = 10000 in the source)
MaxIter == 5

----------------------------------------------------------------------------
(* Exact rational arithmetic standing for Python's float arithmetic *)

Abs(n) == IF n < 0 THEN -n ELSE n

RECURSIVE GCD(_, _)
GCD(a, b) == IF b = 0 THEN a ELSE GCD(b, a % b)

ZeroDivisionError == <<0, 0>>

Raised(x) == x[2] = 0

Q(n, d) ==
    IF d = 0 THEN ZeroDivisionError
    ELSE LET g == GCD(Abs(n), Abs(d))
             s == IF d < 0 THEN -1 ELSE 1
         IN  <<(s * n) \div g, Abs(d) \div g>>

R(n) == <<n, 1>>

\* sums and products are formed over the least common denominator, and
\* products cancel crosswise first, so that intermediate integers stay small
AddQ(x, y, sign) ==
    LET g == GCD(x[2], y[2])
    IN  Q(x[1] * (y[2] \div g) + sign * y[1] * (x[2] \div g), (x[2] \div g) * y[2])

MulQ(a, b, c, d) ==
    LET g1 == GCD(Abs(a), Abs(d))
        g2 == GCD(Abs(c), Abs(b))
    IN  IF a = 0 \/ c = 0 THEN Q(0, 1)
        ELSE Q((a \div g1) * (c \div g2), (b \div g2) * (d \div g1))

Add(x, y) == IF Raised(x) \/ Raised(y) THEN ZeroDivisionError
             ELSE AddQ(x, y, 1)

Sub(x, y) == IF Raised(x) \/ Raised(y) THEN ZeroDivisionError
             ELSE AddQ(x, y, -1)

Mul(x, y) == IF Raised(x) \/ Raised(y) THEN ZeroDivisionError
             ELSE MulQ(x[1], x[2], y[1], y[2])

Div(x, y) == IF Raised(x) \/ Raised(y) \/ y[1] = 0 THEN ZeroDivisionError
             ELSE MulQ(x[1], x[2], y[2], y[1])

\* comparisons of two numbers (never applied to a raised exception)
Geq(x, y) == x[1] * y[2] >= y[1] * x[2]
Leq(x, y) == Geq(y, x)
Gt(x, y) == ~Geq(y, x)
Lt(x, y) == ~Geq(x, y)

\* Python's builtins max(a, b) and min(a, b); evaluating an argument that
\* raises never reaches the builtin
max(x, y) == IF Raised(x) \/ Raised(y) THEN ZeroDivisionError
             ELSE IF Gt(y, x) THEN y ELSE x

min(x, y) == IF Raised(x) \/ Raised(y) THEN ZeroDivisionError
             ELSE IF Lt(y, x) THEN y ELSE x

\* Python's round(x) to an integer: nearest, ties to the even neighbour
round(x) ==
    LET q == x[1] \div x[2]
        r == x[1] - q * x[2]
    IN  IF 2 * r < x[2] THEN q
        ELSE IF 2 * r > x[2] THEN q + 1
        ELSE IF q % 2 = 0 THEN q ELSE q + 1

----------------------------------------------------------------------------
(* Module-level configuration: the values bound at import *)

Features == <<"rmssd", "sdnn", "pnn50", "si", "lfhf", "hf", "hr">>

FeatureNames == {Features[k] : k \in 1..Len(Features)}

ThresholdConstants ==
    [RMSSD_RELAXED |-> R(60),   RMSSD_NORMAL |-> R(40),  RMSSD_ELEVATED |-> R(20),
     SDNN_RELAXED  |-> R(80),   SDNN_NORMAL  |-> R(50),  SDNN_ELEVATED  |-> R(30),
     PNN50_RELAXED |-> R(25),   PNN50_NORMAL |-> R(10),  PNN50_ELEVATED |-> R(3),
     SI_RELAXED    |-> R(100),  SI_NORMAL    |-> R(250), SI_ELEVATED    |-> R(500),
     LFHF_RELAXED  |-> Q(5, 10), LFHF_NORMAL |-> R(2),   LFHF_ELEVATED  |-> R(4),
     HF_RELAXED    |-> R(400),  HF_NORMAL    |-> R(150), HF_ELEVATED    |-> R(40),
     HR_RELAXED    |-> R(65),   HR_NORMAL    |-> R(80),  HR_ELEVATED    |-> R(95)]

WeightsLiteral ==
    [rmssd |-> Q(25, 100), sdnn |-> Q(15, 100), pnn50 |-> Q(10, 100),
     si    |-> Q(15, 100), lfhf |-> Q(15, 100), hf    |-> Q(10, 100),
     hr    |-> Q(10, 100)]

----------------------------------------------------------------------------
(* The two interpolation functions *)

\* inverted_piecewise with the decay above the relaxed cutoff not inverted
inverted_piecewise_rising(value, relaxed, normal, elevated) ==
    IF Geq(value, relaxed) THEN
        max(R(0), Mul(R(12), Div(Sub(value, relaxed), relaxed)))
    ELSE IF Geq(value, normal) THEN
        Add(R(13), Mul(Div(Sub(relaxed, value), Sub(relaxed, normal)), R(24)))
    ELSE IF Geq(value, elevated) THEN
        Add(R(38), Mul(Div(Sub(normal, value), Sub(normal, elevated)), R(24)))
    ELSE
        LET t == IF Gt(elevated, R(0))
                 THEN min(R(1), Div(Sub(elevated, value), elevated))
                 ELSE R(1)
        IN  Add(R(63), Mul(t, R(37)))

\* inverted_piecewise with the second band interpolated from the wrong end
inverted_piecewise_reversed(value, relaxed, normal, elevated) ==
    IF Geq(value, relaxed) THEN
        max(R(0), Mul(R(12), Sub(R(1), Div(Sub(value, relaxed), relaxed))))
    ELSE IF Geq(value, normal) THEN
        Add(R(13), Mul(Div(Sub(value, normal), Sub(relaxed, normal)), R(24)))
    ELSE IF Geq(value, elevated) THEN
        Add(R(38), Mul(Div(Sub(normal, value), Sub(normal, elevated)), R(24)))
    ELSE
        LET t == IF Gt(elevated, R(0))
                 THEN min(R(1), Div(Sub(elevated, value), elevated))
                 ELSE R(1)
        IN  Add(R(63), Mul(t, R(37)))

inverted_piecewise(value, relaxed, normal, elevated) ==
    IF Geq(value, relaxed) THEN
        max(R(0), Mul(R(12), Sub(R(1), Div(Sub(value, relaxed), relaxed))))
    ELSE IF Geq(value, normal) THEN
        Add(R(13), Mul(Div(Sub(relaxed, value), Sub(relaxed, normal)), R(24)))
    ELSE IF Geq(value, elevated) THEN
        Add(R(38), Mul(Div(Sub(normal, value), Sub(normal, elevated)), R(24)))
    ELSE
        LET t == IF Gt(elevated, R(0))
                 THEN min(R(1), Div(Sub(elevated, value), elevated))
                 ELSE R(1)
        IN  Add(R(63), Mul(t, R(37)))

\* direct_piecewise with the second band starting on the first band's end
direct_piecewise_seam(value, relaxed, normal, elevated) ==
    IF Leq(value, relaxed) THEN
        IF Gt(relaxed, R(0)) THEN Mul(Div(value, relaxed), R(12)) ELSE R(0)
    ELSE IF Leq(value, normal) THEN
        Add(R(12), Mul(Div(Sub(value, relaxed), Sub(normal, relaxed)), R(24)))
    ELSE IF Leq(value, elevated) THEN
        Add(R(38), Mul(Div(Sub(value, normal), Sub(elevated, normal)), R(24)))
    ELSE
        LET overshoot == IF Gt(elevated, R(0))
                         THEN min(R(1), Div(Sub(value, elevated), elevated))
                         ELSE R(1)
        IN  Add(R(63), Mul(overshoot, R(37)))

direct_piecewise(value, relaxed, normal, elevated) ==
    IF Leq(value, relaxed) THEN
        IF Gt(relaxed, R(0)) THEN Mul(Div(value, relaxed), R(12)) ELSE R(0)
    ELSE IF Leq(value, normal) THEN
        Add(R(13), Mul(Div(Sub(value, relaxed), Sub(normal, relaxed)), R(24)))
    ELSE IF Leq(value, elevated) THEN
        Add(R(38), Mul(Div(Sub(value, normal), Sub(elevated, normal)), R(24)))
    ELSE
        LET overshoot == IF Gt(elevated, R(0))
                         THEN min(R(1), Div(Sub(value, elevated), elevated))
                         ELSE R(1)
        IN  Add(R(63), Mul(overshoot, R(37)))

----------------------------------------------------------------------------
(* compute_stress_score *)

\* ScoreCalls with HF power scored as a direct feature
ScoreCalls_hfDirect ==
    [rmssd |-> [fn |-> "inverted", relaxed |-> "RMSSD_RELAXED",
                normal |-> "RMSSD_NORMAL", elevated |-> "RMSSD_ELEVATED"],
     sdnn  |-> [fn |-> "inverted", relaxed |-> "SDNN_RELAXED",
                normal |-> "SDNN_NORMAL", elevated |-> "SDNN_ELEVATED"],
     pnn50 |-> [fn |-> "inverted", relaxed |-> "PNN50_RELAXED",
                normal |-> "PNN50_NORMAL", elevated |-> "PNN50_ELEVATED"],
     si    |-> [fn |-> "direct", relaxed |-> "SI_RELAXED",
                normal |-> "SI_NORMAL", elevated |-> "SI_ELEVATED"],
     lfhf  |-> [fn |-> "direct", relaxed |-> "LFHF_RELAXED",
                normal |-> "LFHF_NORMAL", elevated |-> "LFHF_ELEVATED"],
     hf    |-> [fn |-> "direct", relaxed |-> "HF_RELAXED",
                normal |-> "HF_NORMAL", elevated |-> "HF_ELEVATED"],
     hr    |-> [fn |-> "direct", relaxed |-> "HR_RELAXED",
                normal |-> "HR_NORMAL", elevated |-> "HR_ELEVATED"]]

\* the interpolation function and the three constants each entry of the
\* scores dict is computed from
ScoreCalls ==
    [rmssd |-> [fn |-> "inverted", relaxed |-> "RMSSD_RELAXED",
                normal |-> "RMSSD_NORMAL", elevated |-> "RMSSD_ELEVATED"],
     sdnn  |-> [fn |-> "inverted", relaxed |-> "SDNN_RELAXED",
                normal |-> "SDNN_NORMAL", elevated |-> "SDNN_ELEVATED"],
     pnn50 |-> [fn |-> "inverted", relaxed |-> "PNN50_RELAXED",
                normal |-> "PNN50_NORMAL", elevated |-> "PNN50_ELEVATED"],
     si    |-> [fn |-> "direct", relaxed |-> "SI_RELAXED",
                normal |-> "SI_NORMAL", elevated |-> "SI_ELEVATED"],
     lfhf  |-> [fn |-> "direct", relaxed |-> "LFHF_RELAXED",
                normal |-> "LFHF_NORMAL", elevated |-> "LFHF_ELEVATED"],
     hf    |-> [fn |-> "inverted", relaxed |-> "HF_RELAXED",
                normal |-> "HF_NORMAL", elevated |-> "HF_ELEVATED"],
     hr    |-> [fn |-> "direct", relaxed |-> "HR_RELAXED",
                normal |-> "HR_NORMAL", elevated |-> "HR_ELEVATED"]]

\* one entry of the scores dict, read from the constants th
ScoreEntry(name, value, th) ==
    LET c == ScoreCalls[name]
    IN  IF c.fn = "inverted"
        THEN inverted_piecewise(value, th[c.relaxed], th[c.normal], th[c.elevated])
        ELSE direct_piecewise(value, th[c.relaxed], th[c.normal], th[c.elevated])

\* sum(scores[k] * WEIGHTS[k] for k in WEIGHTS), in the dict's order
RECURSIVE WeightedSum(_, _, _)
WeightedSum(scores, w, k) ==
    IF k = 0 THEN R(0)
    ELSE Add(WeightedSum(scores, w, k - 1), Mul(scores[k], w[Features[k]]))

\* int(round(composite)): the clamp to [0, 100] left out
ClampRound_unclamped(composite) == round(composite)

\* int(max(0, min(100, composite))): truncated instead of rounded
ClampRound_truncated(composite) ==
    LET c == max(R(0), min(R(100), composite))
    IN  c[1] \div c[2]

\* int(round(max(0, min(100, composite))))
ClampRound(composite) == round(max(R(0), min(R(100), composite)))

\* the composite of the argument tuple args, with constants th and weights w
Composite(args, th, w) ==
    LET scores == [k \in 1..Len(Features) |-> ScoreEntry(Features[k], args[k], th)]
    IN  WeightedSum(scores, w, Len(Features))

\* the whole function on the argument tuple args
ScoreWith(args, th, w) == ClampRound(Composite(args, th, w))

compute_stress_score(args) == ScoreWith(args, thresholds, WEIGHTS)

----------------------------------------------------------------------------
(* Probing the interpolation functions on their own *)

BandOf(name, th) ==
    LET c == ScoreCalls[name]
    IN  <<th[c.relaxed], th[c.normal], th[c.elevated]>>

\* cutoffs of the bands that are not the shipped ones: zero, equal,
\* negative and mis-ordered cutoffs all occur among their triples
TestCutoffs == {R(-10), R(0), R(10), R(20)}

TestBands == TestCutoffs \X TestCutoffs \X TestCutoffs

\* the values a band is probed at: Grid steps across each interval between
\* two cutoffs, 2 * Grid steps on either side of the outer cutoffs (down to
\* the negated cutoff, up to three times it), zero and +/- Huge
ProbeValues(band) ==
    LET Between(a, b) ==
            {Add(a, Mul(Sub(b, a), Q(k, Grid))) : k \in 0..Grid}
        Around(c) ==
            {Add(c, Mul(c, Q(k, Grid))) : k \in (-2 * Grid)..(2 * Grid)}
    IN  Between(band[1], band[2]) \cup Between(band[2], band[3])
        \cup Around(band[1]) \cup Around(band[3])
        \cup {R(0), R(Huge), R(-Huge)}

PwIdle ==
    [pc |-> "idle", fn |-> "none", feature |-> "none", band |-> <<R(0), R(0), R(0)>>,
     value |-> R(0), other |-> R(0), out |-> R(0), outOther |-> R(0)]

\* the function pw.fn is the one compute_stress_score applies to pw.feature
Assigned(p) == p.feature \in FeatureNames /\ ScoreCalls[p.feature].fn = p.fn

PwStart(fn, feature, band, value, other) ==
    [pc |-> "call", fn |-> fn, feature |-> feature, band |-> band,
     value |-> value, other |-> other, out |-> R(0), outOther |-> R(0)]

InitConfig ==
    /\ thresholds = ThresholdConstants
    /\ WEIGHTS = WeightsLiteral

InitPiecewise ==
    /\ InitConfig
    /\ calls = [p \in 0..NumCallers |-> [pc |-> 0, args |-> <<>>, scores |-> <<>>, ret |-> 0]]
    /\ bench = [phase |-> "off", n |-> 0, latencies |-> 0]
    /\ sc = [pc |-> "idle", args |-> <<>>, ret |-> 0]
    /\ \E fn \in {"inverted", "direct"} :
          \/ \E feature \in FeatureNames :
                LET band == BandOf(feature, thresholds)
                IN  \E value \in ProbeValues(band) :
                       \E other \in (IF ScoreCalls[feature].fn = fn
                                     THEN ProbeValues(band) ELSE {value}) :
                          pw = PwStart(fn, feature, band, value, other)
          \/ \E band \in TestBands :
                \E value \in ProbeValues(band) :
                   pw = PwStart(fn, "none", band, value, value)

PwReturn(out, outOther) ==
    [pw EXCEPT !.pc = IF Raised(out) \/ Raised(outOther) THEN "raised" ELSE "returned",
               !.out = out, !.outOther = outOther]

CallInverted ==
    /\ pw.pc = "call"
    /\ pw.fn = "inverted"
    /\ pw' = PwReturn(
           inverted_piecewise(pw.value, pw.band[1], pw.band[2], pw.band[3]),
           inverted_piecewise(pw.other, pw.band[1], pw.band[2], pw.band[3]))
    /\ UNCHANGED <<thresholds, WEIGHTS, calls, bench, sc>>

CallDirect ==
    /\ pw.pc = "call"
    /\ pw.fn = "direct"
    /\ pw' = PwReturn(
           direct_piecewise(pw.value, pw.band[1], pw.band[2], pw.band[3]),
           direct_piecewise(pw.other, pw.band[1], pw.band[2], pw.band[3]))
    /\ UNCHANGED <<thresholds, WEIGHTS, calls, bench, sc>>

NextPiecewise == CallInverted \/ CallDirect

SpecPiecewise == InitPiecewise /\ [][NextPiecewise]_vars

----------------------------------------------------------------------------
(* Probing compute_stress_score as a pure function *)

\* the values a feature is probed at: Steps steps from its relaxed to its
\* elevated cutoff, and +/- Huge
ScoreValues(name) ==
    LET b == BandOf(name, ThresholdConstants)
    IN  {Add(b[1], Mul(Sub(b[3], b[1]), Q(k, Steps))) : k \in 0..Steps}
        \cup {R(Huge), R(-Huge)}

CallsIdle == [p \in 0..NumCallers |-> [pc |-> 0, args |-> <<>>, scores |-> <<>>, ret |-> 0]]

InitScore ==
    /\ InitConfig
    /\ calls = CallsIdle
    /\ bench = [phase |-> "off", n |-> 0, latencies |-> 0]
    /\ pw = PwIdle
    /\ \E rmssd \in ScoreValues("rmssd"), sdnn \in ScoreValues("sdnn"),
          pnn50 \in ScoreValues("pnn50"), si \in ScoreValues("si"),
          lfhf \in ScoreValues("lfhf"), hf \in ScoreValues("hf"),
          hr \in ScoreValues("hr") :
          sc = [pc |-> "call", args |-> <<rmssd, sdnn, pnn50, si, lfhf, hf, hr>>, ret |-> 0]

ScoreCall ==
    /\ sc.pc = "call"
    /\ sc' = [sc EXCEPT !.pc = "returned", !.ret = compute_stress_score(sc.args)]
    /\ UNCHANGED <<thresholds, WEIGHTS, calls, bench, pw>>

NextScore == ScoreCall

SpecScore == InitScore /\ [][NextScore]_vars

----------------------------------------------------------------------------
(* The engine under concurrent callers, and the benchmark loop *)

test_samples ==
    << <<R(70), R(90), R(30), R(80),  Q(4, 10),  R(500), R(62)>>,
       <<R(48), R(60), R(15), R(170), Q(12, 10), R(250), R(72)>>,
       <<R(28), R(38), R(6),  R(380), R(3),      R(90),  R(88)>>,
       <<R(14), R(22), Q(15, 10), R(620), Q(55, 10), R(25), R(102)>> >>

\* the argument tuples of the callers beside the benchmark
CallerArgs == {test_samples[k] : k \in 1..Len(test_samples)}

Callers == 1..NumCallers

\* caller 0 is the thread running benchmark()
Init ==
    /\ InitConfig
    /\ calls = CallsIdle
    /\ bench = [phase |-> "warmup", n |-> 0, latencies |-> 0]
    /\ pw = PwIdle
    /\ sc = [pc |-> "idle", args |-> <<>>, ret |-> 0]

\* entry of compute_stress_score: the arguments are bound
Enter(p, args) == [pc |-> 1, args |-> args, scores |-> <<>>, ret |-> 0]

Invoke(p) ==
    /\ calls[p].pc = 0
    /\ \E args \in CallerArgs : calls' = [calls EXCEPT ![p] = Enter(p, args)]
    /\ UNCHANGED <<thresholds, WEIGHTS, bench, pw, sc>>

\* EvalScore that uses up the weight of the entry it has just scored
EvalScore_consuming(p) ==
    LET c == calls[p]
    IN  /\ c.pc \in 1..Len(Features)
        /\ calls' = [calls EXCEPT ![p] =
              [c EXCEPT !.scores = Append(c.scores,
                                          ScoreEntry(Features[c.pc], c.args[c.pc], thresholds)),
                        !.pc = c.pc + 1]]
        /\ WEIGHTS' = [WEIGHTS EXCEPT ![Features[c.pc]] = R(0)]
        /\ UNCHANGED <<thresholds, bench, pw, sc>>

\* one entry of the scores dict is evaluated, from the constants as they are now
EvalScore(p) ==
    LET c == calls[p]
    IN  /\ c.pc \in 1..Len(Features)
        /\ calls' = [calls EXCEPT ![p] =
              [c EXCEPT !.scores = Append(c.scores,
                                          ScoreEntry(Features[c.pc], c.args[c.pc], thresholds)),
                        !.pc = c.pc + 1]]
        /\ UNCHANGED <<thresholds, WEIGHTS, bench, pw, sc>>

\* the composite is summed from WEIGHTS as it is now, clamped, rounded, returned
SumAndReturn(p) ==
    LET c == calls[p]
    IN  /\ c.pc = Len(Features) + 1
        /\ calls' = [calls EXCEPT ![p] =
              [c EXCEPT !.ret = ClampRound(WeightedSum(c.scores, WEIGHTS, Len(Features))),
                        !.pc = c.pc + 1]]
        /\ UNCHANGED <<thresholds, WEIGHTS, bench, pw, sc>>

Returned(p) == calls[p].pc = Len(Features) + 2

\* a caller beside the benchmark takes the returned score
Resume(p) ==
    /\ Returned(p)
    /\ calls' = [calls EXCEPT ![p] = CallsIdle[p]]
    /\ UNCHANGED <<thresholds, WEIGHTS, bench, pw, sc>>

\* warm-up: for _ in range(..): for sample in test_samples: compute_stress_score(*sample)
WarmupCall ==
    /\ bench.phase = "warmup"
    /\ bench.n < WarmupRuns * Len(test_samples)
    /\ calls[0].pc = 0
    /\ calls' = [calls EXCEPT ![0] = Enter(0, test_samples[(bench.n % Len(test_samples)) + 1])]
    /\ UNCHANGED <<thresholds, WEIGHTS, bench, pw, sc>>

\* the warm-up call returns; after the last one latencies = [] and the timed loop starts
WarmupReturn ==
    /\ bench.phase = "warmup"
    /\ Returned(0)
    /\ calls' = [calls EXCEPT ![0] = CallsIdle[0]]
    /\ bench' = IF bench.n + 1 = WarmupRuns * Len(test_samples)
                THEN [phase |-> "run", n |-> 0, latencies |-> 0]
                ELSE [bench EXCEPT !.n = bench.n + 1]
    /\ UNCHANGED <<thresholds, WEIGHTS, pw, sc>>

\* timed loop: sample = test_samples[i % 4]; compute_stress_score(*sample)
TimedCall ==
    /\ bench.phase = "run"
    /\ bench.n < MaxIter
    /\ calls[0].pc = 0
    /\ calls' = [calls EXCEPT ![0] = Enter(0, test_samples[(bench.n % 4) + 1])]
    /\ UNCHANGED <<thresholds, WEIGHTS, bench, pw, sc>>

\* the timed call returns: its latency is appended (only the length of
\* latencies is kept; the clock readings are not modelled)
TimedReturn ==
    /\ bench.phase = "run"
    /\ Returned(0)
    /\ calls' = [calls EXCEPT ![0] = CallsIdle[0]]
    /\ bench' = [bench EXCEPT !.n = bench.n + 1, !.latencies = bench.latencies + 1]
    /\ UNCHANGED <<thresholds, WEIGHTS, pw, sc>>

\* the loop is over: statistics are computed from latencies and printed
Report ==
    /\ bench.phase = "run"
    /\ bench.n = MaxIter
    /\ calls[0].pc = 0
    /\ bench' = [bench EXCEPT !.phase = "done"]
    /\ UNCHANGED <<thresholds, WEIGHTS, calls, pw, sc>>

Next ==
    \/ \E p \in Callers : Invoke(p)
    \/ \E p \in 0..NumCallers : EvalScore(p)
    \/ \E p \in 0..NumCallers : SumAndReturn(p)
    \/ \E p \in Callers : Resume(p)
    \/ WarmupCall
    \/ WarmupReturn
    \/ TimedCall
    \/ TimedReturn
    \/ Report

Spec == Init /\ [][Next]_vars

\* weight tables a build may ship: the literal of the source, and the same
\* table with the RMSSD weight lowered so that the weights sum to 0.97
WeightConfigs ==
    {WeightsLiteral, [WeightsLiteral EXCEPT !.rmssd = Q(22, 100)]}

\* import of the module with one of the weight tables: the dict literal is
\* bound to WEIGHTS as it is written
InitCfg ==
    /\ thresholds = ThresholdConstants
    /\ WEIGHTS \in WeightConfigs
    /\ calls = CallsIdle
    /\ bench = [phase |-> "warmup", n |-> 0, latencies |-> 0]
    /\ pw = PwIdle
    /\ sc = [pc |-> "idle", args |-> <<>>, ret |-> 0]

SpecCfg == InitCfg /\ [][Next]_vars

----------------------------------------------------------------------------
(* Properties of the interpolation functions, under SpecPiecewise *)

AbsQ(x) == IF Lt(x, R(0)) THEN Sub(R(0), x) ELSE x

\* a call of the function compute_stress_score assigns to a shipped band
\* has returned
ReturnedAssigned == pw.pc = "returned" /\ Assigned(pw)

\* v lies between the cutoffs a and b, a itself excluded
InBandAfter(v, a, b) ==
    /\ v # a
    /\ \/ Leq(a, v) /\ Leq(v, b)
       \/ Leq(b, v) /\ Leq(v, a)

\* C2: for each shipped band and every value, the sub-score the band's
\* function returns lies in [0, 100] without any clamping by the caller.
C2_SubScoreInRange ==
    ReturnedAssigned => Geq(pw.out, R(0)) /\ Leq(pw.out, R(100))

\* C3: with the thresholds of a shipped band fixed and value <= other,
\* inverted_piecewise(value) >= inverted_piecewise(other) and
\* direct_piecewise(value) <= direct_piecewise(other).
C3_Monotone ==
    (ReturnedAssigned /\ Leq(pw.value, pw.other)) =>
        IF pw.fn = "inverted"
        THEN Geq(pw.out, pw.outOther)
        ELSE Leq(pw.out, pw.outOther)

\* two values on either side of the normal cutoff of an inverted band, with
\* different sub-scores
C3_Witness ==
    /\ ReturnedAssigned
    /\ pw.fn = "inverted"
    /\ Lt(pw.value, pw.band[2])
    /\ Gt(pw.other, pw.band[2])
    /\ Gt(pw.out, pw.outOther)

\* C5: for every value and every threshold triple, zero, equal and
\* mis-ordered cutoffs included, neither function divides by zero: every
\* call returns a number.
C5_NoDivisionFault ==
    pw.pc # "call" => pw.pc = "returned" /\ ~Raised(pw.out)

\* C6: for each shipped band the sub-score at value = relaxed is exactly
\* 12 and at value = normal exactly 37; between relaxed and normal the
\* sub-score rises linearly from 13 (at the relaxed cutoff, where the
\* relaxed band ended at 12) to 37, and between normal and elevated from
\* 38 to 62; the same for both functions.
C6_Seams ==
    ReturnedAssigned =>
        LET r == pw.band[1]
            n == pw.band[2]
            e == pw.band[3]
            v == pw.value
        IN  /\ v = r => pw.out = R(12)
            /\ v = n => pw.out = R(37)
            /\ InBandAfter(v, r, n) =>
                  /\ Gt(pw.out, R(13))
                  /\ Sub(pw.out, R(13))
                       = Mul(R(24), Div(AbsQ(Sub(v, r)), AbsQ(Sub(n, r))))
            /\ InBandAfter(v, n, e) =>
                  /\ Gt(pw.out, R(38))
                  /\ Sub(pw.out, R(38))
                       = Mul(R(24), Div(AbsQ(Sub(v, n)), AbsQ(Sub(e, n))))

\* direct_piecewise has returned 37 at the normal cutoff of its band
C6_Witness ==
    /\ ReturnedAssigned
    /\ pw.fn = "direct"
    /\ pw.value = pw.band[2]
    /\ pw.out = R(37)

\* value and other lie in the second band of inverted_piecewise
InSecondBand(v) == Geq(v, pw.band[2]) /\ Lt(v, pw.band[1])

\* C10 as stated: in the second band of inverted_piecewise the sub-score
\* is 13 at value = normal and stays between 12 and 13.
C10_Original ==
    (ReturnedAssigned /\ pw.fn = "inverted" /\ InSecondBand(pw.value)) =>
        /\ Geq(pw.out, R(12))
        /\ Leq(pw.out, R(13))
        /\ pw.value = pw.band[2] => pw.out = R(13)

\* C10 amended: in the second band of inverted_piecewise (normal <= value
\* < relaxed) the sub-score is a linear interpolation that takes the value
\* 37 at value = normal and approaches 13 at value = relaxed: it stays in
\* (13, 37] and falls by 24 / (relaxed - normal) per unit of value.
C10_SecondBand ==
    (ReturnedAssigned /\ pw.fn = "inverted" /\ InSecondBand(pw.value)) =>
        /\ Gt(pw.out, R(13))
        /\ Leq(pw.out, R(37))
        /\ pw.value = pw.band[2] => pw.out = R(37)
        /\ InSecondBand(pw.other) =>
              Mul(Sub(pw.out, pw.outOther), Sub(pw.band[1], pw.band[2]))
                = Mul(R(24), Sub(pw.other, pw.value))

\* two different values of the second band, one of them the normal cutoff
C10_Witness ==
    /\ ReturnedAssigned
    /\ pw.fn = "inverted"
    /\ pw.value = pw.band[2]
    /\ InSecondBand(pw.other)
    /\ pw.other # pw.value
    /\ pw.out = R(37)

----------------------------------------------------------------------------
(* Properties of compute_stress_score, under SpecScore *)

\* C1: for every combination of seven feature values, negative and very
\* large ones included, compute_stress_score with the shipped thresholds
\* and weights returns an integer s with 0 <= s <= 100.
C1_ScoreInRange ==
    sc.pc = "returned" => sc.ret \in 0..100

\* a call whose composite is negative before the clamp has returned 0
C1_Witness ==
    /\ sc.pc = "returned"
    /\ Lt(Composite(sc.args, thresholds, WEIGHTS), R(0))
    /\ sc.ret = 0

----------------------------------------------------------------------------
(* Properties of the engine, under Spec and SpecCfg *)

\* the scores the four reference vectors return
ReferenceScores == <<10, 27, 51, 74>>

\* C4 as stated: the four reference vectors return 9, about 30, about 56
\* and about 88 ("about": within 1 of the number).
C4_Original ==
    \A k \in 1..Len(test_samples) :
        (Returned(0) /\ calls[0].args = test_samples[k]) =>
            LET expected == <<9, 30, 56, 88>>[k]
                slack == IF k = 1 THEN 0 ELSE 1
            IN  Abs(calls[0].ret - expected) <= slack

\* C4 amended: the four reference vectors, scored by compute_stress_score
\* with the shipped tables, return 10, 27, 51 and 74.
C4_ReferenceScores ==
    \A k \in 1..Len(test_samples) :
        (Returned(0) /\ calls[0].args = test_samples[k]) =>
            calls[0].ret = ReferenceScores[k]

\* the timed loop's call on the fourth reference vector has returned
C4_Witness ==
    /\ bench.phase = "run"
    /\ Returned(0)
    /\ calls[0].args = test_samples[4]
    /\ calls[0].ret = 74

\* C7: no operation of the engine or of the benchmark loop writes the
\* threshold constants or WEIGHTS, and under every interleaving each call
\* returns what it returns when run alone on the same seven arguments.
C7_CallsIndependent ==
    /\ [](\A p \in 0..NumCallers :
             Returned(p) =>
                 calls[p].ret = ScoreWith(calls[p].args, ThresholdConstants, WeightsLiteral))
    /\ [][thresholds' = thresholds /\ WEIGHTS' = WEIGHTS]_vars

\* a caller has returned while the benchmark's call is half evaluated
C7_Witness ==
    /\ Returned(1)
    /\ calls[0].pc \in 2..Len(Features)
    /\ calls[0].args # calls[1].args

RECURSIVE SumWeights(_, _)
SumWeights(w, k) == IF k = 0 THEN R(0) ELSE Add(SumWeights(w, k - 1), w[Features[k]])

\* C8: a weight table whose seven weights do not sum to 1.0 is rejected
\* when it is constructed: no score is ever computed with those weights.
C8_BadWeightsRejected ==
    SumWeights(WEIGHTS, Len(Features)) # R(1) =>
        \A p \in 0..NumCallers : ~Returned(p)

\* direction and cutoffs of every feature in the threshold table
ThresholdTable ==
    [rmssd |-> [direction |-> "inverted", band |-> <<R(60), R(40), R(20)>>],
     sdnn  |-> [direction |-> "inverted", band |-> <<R(80), R(50), R(30)>>],
     pnn50 |-> [direction |-> "inverted", band |-> <<R(25), R(10), R(3)>>],
     si    |-> [direction |-> "direct",   band |-> <<R(100), R(250), R(500)>>],
     lfhf  |-> [direction |-> "direct",   band |-> <<Q(1, 2), R(2), R(4)>>],
     hf    |-> [direction |-> "inverted", band |-> <<R(400), R(150), R(40)>>],
     hr    |-> [direction |-> "direct",   band |-> <<R(65), R(80), R(95)>>]]

\* the sub-score the threshold table assigns to a value of a feature
TableScore(name, value) ==
    LET t == ThresholdTable[name]
    IN  IF t.direction = "inverted"
        THEN inverted_piecewise(value, t.band[1], t.band[2], t.band[3])
        ELSE direct_piecewise(value, t.band[1], t.band[2], t.band[3])

\* C9: the shipped configuration satisfies the data-model invariants: the
\* four bands passed to inverted_piecewise (RMSSD, SDNN, pNN50, HF) have
\* relaxed > normal > elevated > 0, the three passed to direct_piecewise
\* (SI, LF/HF, HR) have 0 < relaxed < normal < elevated, every weight is
\* in (0, 1], the weights sum to 1, and compute_stress_score applies to
\* every feature the direction and the band the threshold table assigns.
C9_ShippedConfiguration ==
    /\ {f \in FeatureNames : ScoreCalls[f].fn = "inverted"} = {"rmssd", "sdnn", "pnn50", "hf"}
    /\ {f \in FeatureNames : ScoreCalls[f].fn = "direct"} = {"si", "lfhf", "hr"}
    /\ \A f \in FeatureNames :
          LET b == BandOf(f, thresholds)
          IN  /\ ScoreCalls[f].fn = "inverted" =>
                    Gt(b[1], b[2]) /\ Gt(b[2], b[3]) /\ Gt(b[3], R(0))
              /\ ScoreCalls[f].fn = "direct" =>
                    Gt(b[1], R(0)) /\ Lt(b[1], b[2]) /\ Lt(b[2], b[3])
              /\ ScoreCalls[f].fn = ThresholdTable[f].direction
              /\ b = ThresholdTable[f].band
              /\ Gt(WEIGHTS[f], R(0)) /\ Leq(WEIGHTS[f], R(1))
    /\ SumWeights(WEIGHTS, Len(Features)) = R(1)
    /\ \A p \in 0..NumCallers :
          \A k \in 1..Len(calls[p].scores) :
              calls[p].scores[k] = TableScore(Features[k], calls[p].args[k])

\* a call has scored all seven features, HF power at a value where the two
\* directions differ
C9_Witness ==
    /\ Len(calls[0].scores) = Len(Features)
    /\ calls[0].scores[6]
         # direct_piecewise(calls[0].args[6], thresholds.HF_RELAXED,
                            thresholds.HF_NORMAL, thresholds.HF_ELEVATED)

====
